---- MODULE Spec2Model ----
(***************************************************************************)
(* The task-dependency scheduler of the todo application                   *)
(* (lib/dependencies: parseDependencies, hasCircularDependency,            *)
(* topologicalSort, calculateSchedule, findCriticalPath) together with the *)
(* two routes that feed it: POST /api/todos, which persists a task, and    *)
(* GET /api/todos/dependencies, which schedules the stored tasks.          *)
(*                                                                         *)
(* Timestamps are milliseconds since the Unix epoch, as Date.getTime().    *)
(* A JS Map is modelled by a function together with the sequence of its    *)
(* keys in insertion order.                                                *)
(***************************************************************************)
EXTENDS Integers, Sequences, FiniteSets, TLC

\* ------------------------------------------------------------------ bounds
\* at most MaxTodos tasks are created
MaxTodos == 3
\* a dependency list sent to POST or given as candidate has at most MaxDeps entries
MaxDeps == 2
\* the table of SpecParse holds MaxParsed tasks
MaxParsed == 2
\* at most MaxInFlight fetchTodos requests are under way at a time
MaxInFlight == 2

\* ------------------------------------------------------- program constants
HourMs == 3600000
ToleranceMs == 1000
\* new Date(0)
Epoch == 0
\* "no task" marker of findCriticalPath (endTask, criticalDep)
NoTask == -1
\* the candidate of hasCircularDependency without identifier (id?: number)
UndefinedId == 0
\* first value of the autoincrement primary key
FirstId == 1

\* ------------------------------------------------------------ environment
\* the wall clock when a schedule computation starts
Now0 == 2 * HourMs
\* by how many ms the wall clock may move on between two readings
Advances == {0, 1}
\* the duration values a request may carry (0: none given)
Durations == {-3, 0, 2}
\* identifiers a dependency list may name (one of them may not exist yet,
\* or never)
DepIds == FirstId .. (FirstId + MaxTodos - 1)

\* ------------------------------------------------------------ JSON values
\* An element of a JSON array: a number or a string.
Num(n) == [t |-> "number", v |-> n]
Str(n) == [t |-> "string", v |-> n]
\* The number n + 1/2. The values are integers here, so this number is
\* written as -(10n + 5), which is no task's identifier and none of the
\* integers that stand for something else.
Frac(n) == [t |-> "fraction", v |-> 0 - (10 * n + 5)]
\* the element true
JTrue == [t |-> "boolean", v |-> 1]

RECURSIVE SeqsUpTo(_, _)
\* all sequences over S of length at most n
SeqsUpTo(S, n) ==
  IF n = 0 THEN {<<>>}
  ELSE LET shorter == SeqsUpTo(S, n - 1)
       IN  shorter \cup {Append(s, x) : s \in {q \in shorter : Len(q) = n - 1}, x \in S}

NoDup(s) == \A i, j \in 1..Len(s) : i # j => s[i] # s[j]

\* A value of the request body's "dependencies" member.
JUndefined == [k |-> "undefined", a |-> <<>>]
JArray(elems) == [k |-> "array", a |-> elems]
\* the string that holds the text of an array
JString(elems) == [k |-> "string", a |-> elems]

\* The text of the Todo.dependencies column (String?), described by what
\* JSON.parse makes of it: null (no text), the text of an array, or text
\* that is no JSON at all ("not-json"); also the empty text, and the text of
\* a JSON value that is no array, here the number n.
TNull == [k |-> "null", a |-> <<>>]
TArray(elems) == [k |-> "array", a |-> elems]
TGarbage == [k |-> "garbage", a |-> <<>>]
TEmpty == [k |-> "empty", a |-> <<>>]
TValue(n) == [k |-> "value", a |-> <<Num(n)>>]
\* the text of a JSON string, which holds the text of an array: "\"[1,2]\""
TQuoted(elems) == [k |-> "quoted", a |-> elems]

\* JSON.stringify of a body value: of an array the text of the array, of a
\* string the text of the string, quotes included
JSONstringify(j) == IF j.k = "string" THEN TQuoted(j.a) ELSE TArray(j.a)

NumArray(s) == [i \in 1..Len(s) |-> Num(s[i])]

\* ------------------------------------------------------- parseDependencies
\* typeof id === 'number'
IsNumber(e) == e.t \in {"number", "fraction"}

\* parseDependencies that takes the numbers of whatever JSON.parse returns,
\* an array or not
parseDependencies_anyValue(dependencies) ==
  IF dependencies.k \in {"null", "empty", "garbage"} THEN <<>>
  ELSE LET kept == SelectSeq(dependencies.a, IsNumber)
       IN  [i \in 1..Len(kept) |-> kept[i].v]

parseDependencies(dependencies) ==
  IF dependencies.k \in {"null", "empty"} THEN <<>>
  ELSE IF dependencies.k = "garbage" THEN <<>>
  ELSE IF dependencies.k = "array"
       THEN LET kept == SelectSeq(dependencies.a, IsNumber)
            IN  [i \in 1..Len(kept) |-> kept[i].v]
       ELSE <<>>

\* ---------------------------------------------------- hasCircularDependency
\* keys of the Map after graph.set(id, ...): a new key goes last, a known
\* key keeps its place
MapSetKey(keys, id) ==
  IF \E i \in 1..Len(keys) : keys[i] = id THEN keys ELSE Append(keys, id)

TodoIds(todos) == [i \in 1..Len(todos) |-> todos[i].id]

\* the depends-on Map built by hasCircularDependency
CycleGraph(todos, newTodo) ==
  LET stored == [id \in {todos[i].id : i \in 1..Len(todos)} |->
                   LET i == CHOOSE k \in 1..Len(todos) :
                              /\ todos[k].id = id
                              /\ \A m \in k+1..Len(todos) : todos[m].id # id
                   IN  parseDependencies(todos[i].dependencies)]
  IN  IF newTodo.id # UndefinedId
      THEN [id \in DOMAIN stored \cup {newTodo.id} |->
              IF id = newTodo.id THEN newTodo.dependencies ELSE stored[id]]
      ELSE stored

CycleGraphKeys(todos, newTodo) ==
  IF newTodo.id # UndefinedId THEN MapSetKey(TodoIds(todos), newTodo.id)
  ELSE TodoIds(todos)

RECURSIVE hasCycle(_, _, _)
RECURSIVE hasCycleDeps(_, _, _, _)
\* hasCycle(nodeId) with the two Sets it works on passed in st and handed
\* back with the verdict r
hasCycle(graph, nodeId, st) ==
  IF nodeId \in st.recursionStack THEN [st EXCEPT !.r = TRUE]
  ELSE IF nodeId \in st.visited THEN [st EXCEPT !.r = FALSE]
  ELSE LET entered == [r |-> FALSE,
                       visited |-> st.visited \cup {nodeId},
                       recursionStack |-> st.recursionStack \cup {nodeId}]
           dependencies == IF nodeId \in DOMAIN graph THEN graph[nodeId] ELSE <<>>
           after == hasCycleDeps(graph, dependencies, 1, entered)
       IN  IF after.r THEN after
           ELSE [after EXCEPT !.recursionStack = @ \ {nodeId}]

\* the for-of loop over the dependencies of a node, from position i on
hasCycleDeps(graph, dependencies, i, st) ==
  IF i > Len(dependencies) THEN [st EXCEPT !.r = FALSE]
  ELSE LET sub == hasCycle(graph, dependencies[i], st)
       IN  IF sub.r THEN sub
           ELSE hasCycleDeps(graph, dependencies, i + 1, sub)

RECURSIVE CheckAllNodes(_, _, _, _)
\* Array.from(graph.keys()).forEach(nodeId => { if (hasCycle(nodeId)) return true; })
\* the callback's return value goes nowhere: only the Sets carry over
CheckAllNodes(graph, keys, i, st) ==
  IF i > Len(keys) THEN st
  ELSE CheckAllNodes(graph, keys, i + 1, hasCycle(graph, keys[i], st))

NoSets == [r |-> FALSE, visited |-> {}, recursionStack |-> {}]

RECURSIVE hasCycle_keepStack(_, _, _)
RECURSIVE hasCycleDeps_keepStack(_, _, _, _)
\* hasCycle without recursionStack.delete(nodeId): a node stays "on the stack"
\* after it has been explored
hasCycle_keepStack(graph, nodeId, st) ==
  IF nodeId \in st.recursionStack THEN [st EXCEPT !.r = TRUE]
  ELSE IF nodeId \in st.visited THEN [st EXCEPT !.r = FALSE]
  ELSE LET entered == [r |-> FALSE,
                       visited |-> st.visited \cup {nodeId},
                       recursionStack |-> st.recursionStack \cup {nodeId}]
           dependencies == IF nodeId \in DOMAIN graph THEN graph[nodeId] ELSE <<>>
       IN  hasCycleDeps_keepStack(graph, dependencies, 1, entered)

hasCycleDeps_keepStack(graph, dependencies, i, st) ==
  IF i > Len(dependencies) THEN [st EXCEPT !.r = FALSE]
  ELSE LET sub == hasCycle_keepStack(graph, dependencies[i], st)
       IN  IF sub.r THEN sub
           ELSE hasCycleDeps_keepStack(graph, dependencies, i + 1, sub)

RECURSIVE SomeNode_keepStack(_, _, _, _)
SomeNode_keepStack(graph, keys, i, st) ==
  IF i > Len(keys) THEN FALSE
  ELSE LET sub == hasCycle_keepStack(graph, keys[i], st)
       IN  sub.r \/ SomeNode_keepStack(graph, keys, i + 1, sub)

\* a hasCircularDependency that hands on what hasCycle found, and whose
\* hasCycle never takes a node off the recursion stack
hasCircularDependency_keepStack(todos, newTodo) ==
  SomeNode_keepStack(CycleGraph(todos, newTodo), CycleGraphKeys(todos, newTodo), 1, NoSets)

hasCircularDependency(todos, newTodo) ==
  LET graph == CycleGraph(todos, newTodo)
      \* the forEach over all nodes: it changes the two Sets and nothing else
      sets == CheckAllNodes(graph, CycleGraphKeys(todos, newTodo), 1, NoSets)
  IN  \* return false
      FALSE

\* ---------------------------------------------------------- topologicalSort
\* todos.find(t => t.id === id) / todoMap.get(id)
TodoById(todos, id) ==
  todos[CHOOSE i \in 1..Len(todos) :
          /\ todos[i].id = id
          /\ \A m \in 1..(i - 1) : todos[m].id # id]

HasTodo(todos, id) == \E i \in 1..Len(todos) : todos[i].id = id

RECURSIVE AddDeps_countAll(_, _, _, _)
\* AddDeps that counts every listed identifier in the in-degree, a task of
\* the collection or not
AddDeps_countAll(g, todoId, deps, j) ==
  IF j > Len(deps) THEN g
  ELSE LET depId == deps[j]
           g1 == [graph |-> IF depId \in DOMAIN g.graph
                            THEN [g.graph EXCEPT ![depId] = Append(@, todoId)]
                            ELSE g.graph,
                  inDegree |-> [g.inDegree EXCEPT ![todoId] = @ + 1]]
       IN  AddDeps_countAll(g1, todoId, deps, j + 1)

RECURSIVE AddDeps(_, _, _, _)
\* deps.forEach(depId => { if (graph.has(depId)) { push; inDegree + 1 } })
\* g is [graph, inDegree]
AddDeps(g, todoId, deps, j) ==
  IF j > Len(deps) THEN g
  ELSE LET depId == deps[j]
           g1 == IF depId \in DOMAIN g.graph
                 THEN [graph |-> [g.graph EXCEPT ![depId] = Append(@, todoId)],
                       inDegree |-> [g.inDegree EXCEPT ![todoId] = @ + 1]]
                 ELSE g
       IN  AddDeps(g1, todoId, deps, j + 1)

RECURSIVE BuildGraph(_, _, _)
\* the second todos.forEach of topologicalSort, from position i on
BuildGraph(g, todos, i) ==
  IF i > Len(todos) THEN g
  ELSE BuildGraph(AddDeps(g, todos[i].id, parseDependencies(todos[i].dependencies), 1),
                  todos, i + 1)

RECURSIVE Relax_always(_, _, _)
\* Relax without the test for zero: a neighbour is queued at every decrement
Relax_always(k, neighbors, j) ==
  IF j > Len(neighbors) THEN k
  ELSE LET neighbor == neighbors[j]
           deg == k.inDegree[neighbor] - 1
       IN  Relax_always([inDegree |-> [k.inDegree EXCEPT ![neighbor] = deg],
                         queue |-> Append(k.queue, neighbor)],
                        neighbors, j + 1)

RECURSIVE Relax(_, _, _)
\* neighbors.forEach(neighbor => { inDegree - 1; if (=== 0) queue.push })
\* k is [inDegree, queue]
Relax(k, neighbors, j) ==
  IF j > Len(neighbors) THEN k
  ELSE LET neighbor == neighbors[j]
           deg == k.inDegree[neighbor] - 1
       IN  Relax([inDegree |-> [k.inDegree EXCEPT ![neighbor] = deg],
                  queue |-> IF deg = 0 THEN Append(k.queue, neighbor) ELSE k.queue],
                 neighbors, j + 1)

RECURSIVE Kahn_lifo(_, _, _)
\* Kahn that takes the task queued last (queue.pop() instead of shift())
Kahn_lifo(graph, k, result) ==
  IF Len(k.queue) = 0 THEN result
  ELSE LET current == k.queue[Len(k.queue)]
           rest == [k EXCEPT !.queue = SubSeq(@, 1, Len(@) - 1)]
       IN  Kahn_lifo(graph, Relax(rest, graph[current], 1), Append(result, current))

RECURSIVE Kahn(_, _, _)
\* while (queue.length > 0) { shift; push to result; relax the neighbours }
Kahn(graph, k, result) ==
  IF Len(k.queue) = 0 THEN result
  ELSE LET current == Head(k.queue)
           rest == [k EXCEPT !.queue = Tail(@)]
       IN  Kahn(graph, Relax(rest, graph[current], 1), Append(result, current))

\* topologicalSort that seeds the queue with the tasks of in-degree 0 or 1
topologicalSort_seedLow(todos) ==
  LET ids == {todos[i].id : i \in 1..Len(todos)}
      keys == TodoIds(todos)
      empty == [graph |-> [id \in ids |-> <<>>], inDegree |-> [id \in ids |-> 0]]
      g == BuildGraph(empty, todos, 1)
      queue == SelectSeq(keys, LAMBDA id : g.inDegree[id] <= 1)
  IN  Kahn(g.graph, [inDegree |-> g.inDegree, queue |-> queue], <<>>)

\* topologicalSort that makes a node of every identifier a dependency list
\* names, and so returns, after the tasks, the identifiers that are no task
topologicalSort_withUnknown(todos) ==
  LET ids == {todos[i].id : i \in 1..Len(todos)}
      keys == TodoIds(todos)
      empty == [graph |-> [id \in ids |-> <<>>], inDegree |-> [id \in ids |-> 0]]
      g == BuildGraph(empty, todos, 1)
      queue == SelectSeq(keys, LAMBDA id : g.inDegree[id] = 0)
      named == UNION {{parseDependencies(todos[i].dependencies)[j] :
                         j \in 1..Len(parseDependencies(todos[i].dependencies))} :
                      i \in 1..Len(todos)}
      unknown == SelectSeq([i \in 1..(MaxTodos + 1) |-> FirstId + i - 1],
                           LAMBDA d : d \in named /\ d \notin ids)
  IN  Kahn(g.graph, [inDegree |-> g.inDegree, queue |-> queue], <<>>) \o unknown

topologicalSort(todos) ==
  LET ids == {todos[i].id : i \in 1..Len(todos)}
      keys == TodoIds(todos)
      empty == [graph |-> [id \in ids |-> <<>>], inDegree |-> [id \in ids |-> 0]]
      g == BuildGraph(empty, todos, 1)
      \* inDegree.forEach in insertion order
      queue == SelectSeq(keys, LAMBDA id : g.inDegree[id] = 0)
  IN  Kahn(g.graph, [inDegree |-> g.inDegree, queue |-> queue], <<>>)

\* -------------------------------------------------------- findCriticalPath
RECURSIVE LatestTask_earlier(_, _, _, _)
\* LatestTask with the comparison turned round (time < latestCompletion)
LatestTask_earlier(completionTime, keys, i, e) ==
  IF i > Len(keys) THEN e
  ELSE LET time == completionTime[keys[i]]
       IN  LatestTask_earlier(completionTime, keys, i + 1,
                              IF time < e.latestCompletion
                              THEN [latestCompletion |-> time, endTask |-> keys[i]]
                              ELSE e)

RECURSIVE LatestTask_lastTie(_, _, _, _)
\* LatestTask in which an equal completion time wins too (time >= latestCompletion)
LatestTask_lastTie(completionTime, keys, i, e) ==
  IF i > Len(keys) THEN e
  ELSE LET time == completionTime[keys[i]]
       IN  LatestTask_lastTie(completionTime, keys, i + 1,
                              IF time >= e.latestCompletion
                              THEN [latestCompletion |-> time, endTask |-> keys[i]]
                              ELSE e)

RECURSIVE LatestTask(_, _, _, _)
\* completionTime.forEach((time, todoId) => { if (time > latestCompletion) ... })
\* over the Map's keys in insertion order; e is [latestCompletion, endTask]
LatestTask(completionTime, keys, i, e) ==
  IF i > Len(keys) THEN e
  ELSE LET time == completionTime[keys[i]]
       IN  LatestTask(completionTime, keys, i + 1,
                      IF time > e.latestCompletion
                      THEN [latestCompletion |-> time, endTask |-> keys[i]]
                      ELSE e)

Abs(x) == IF x < 0 THEN -x ELSE x

RECURSIVE CriticalDep_anyGap(_, _, _, _, _)
\* CriticalDep without the tolerance test: the latest dependency wins
\* however far its completion is from the task's start
CriticalDep_anyGap(completionTime, todoStart, deps, j, c) ==
  IF j > Len(deps) THEN c
  ELSE LET depId == deps[j]
           c1 == IF /\ depId \in DOMAIN completionTime
                    /\ completionTime[depId] > c.latestDepCompletion
                 THEN [latestDepCompletion |-> completionTime[depId], criticalDep |-> depId]
                 ELSE c
       IN  CriticalDep_anyGap(completionTime, todoStart, deps, j + 1, c1)

RECURSIVE CriticalDep_lastTie(_, _, _, _, _)
\* CriticalDep in which an equal completion wins too (>= latestDepCompletion)
CriticalDep_lastTie(completionTime, todoStart, deps, j, c) ==
  IF j > Len(deps) THEN c
  ELSE LET depId == deps[j]
           c1 == IF /\ depId \in DOMAIN completionTime
                    /\ Abs(completionTime[depId] - todoStart) < ToleranceMs
                    /\ completionTime[depId] >= c.latestDepCompletion
                 THEN [latestDepCompletion |-> completionTime[depId], criticalDep |-> depId]
                 ELSE c
       IN  CriticalDep_lastTie(completionTime, todoStart, deps, j + 1, c1)

RECURSIVE CriticalDep(_, _, _, _, _)
\* deps.forEach(depId => { ... }) of tracePath; c is [latestDepCompletion, criticalDep]
CriticalDep(completionTime, todoStart, deps, j, c) ==
  IF j > Len(deps) THEN c
  ELSE LET depId == deps[j]
           c1 == IF /\ depId \in DOMAIN completionTime
                    /\ Abs(completionTime[depId] - todoStart) < ToleranceMs
                    /\ completionTime[depId] > c.latestDepCompletion
                 THEN [latestDepCompletion |-> completionTime[depId], criticalDep |-> depId]
                 ELSE c
       IN  CriticalDep(completionTime, todoStart, deps, j + 1, c1)

RECURSIVE tracePath(_, _, _, _, _)
\* p is [criticalPath, visited]
tracePath(todos, earliestStart, completionTime, todoId, p) ==
  IF todoId \in p.visited THEN p
  ELSE LET p1 == [criticalPath |-> Append(p.criticalPath, todoId),
                  visited |-> p.visited \cup {todoId}]
       IN  IF ~HasTodo(todos, todoId) THEN p1
           ELSE LET deps == parseDependencies(TodoById(todos, todoId).dependencies)
                    c == CriticalDep(completionTime, earliestStart[todoId], deps, 1,
                                     [latestDepCompletion |-> Epoch, criticalDep |-> NoTask])
                IN  IF c.criticalDep # NoTask
                    THEN tracePath(todos, earliestStart, completionTime, c.criticalDep, p1)
                    ELSE p1

Reverse(s) == [i \in 1..Len(s) |-> s[Len(s) + 1 - i]]

\* keys: the keys of completionTime in insertion order
findCriticalPath(todos, earliestStart, completionTime, keys) ==
  LET e == LatestTask(completionTime, keys, 1,
                      [latestCompletion |-> Epoch, endTask |-> NoTask])
  IN  IF e.endTask = NoTask THEN <<>>
      ELSE Reverse(tracePath(todos, earliestStart, completionTime, e.endTask,
                             [criticalPath |-> <<>>, visited |-> {}]).criticalPath)

\* ------------------------------------------------------- calculateSchedule
RECURSIVE MaxCompletionTime_last(_, _, _, _)
\* MaxCompletionTime without the comparison: the last dependency that has a
\* completion time wins
MaxCompletionTime_last(completionTime, deps, j, max) ==
  IF j > Len(deps) THEN max
  ELSE MaxCompletionTime_last(completionTime, deps, j + 1,
         IF deps[j] \in DOMAIN completionTime
         THEN completionTime[deps[j]] ELSE max)

RECURSIVE MaxCompletionTime_min(_, _, _, _)
\* MaxCompletionTime with the comparison turned round: the earliest wins
MaxCompletionTime_min(completionTime, deps, j, max) ==
  IF j > Len(deps) THEN max
  ELSE MaxCompletionTime_min(completionTime, deps, j + 1,
         IF deps[j] \in DOMAIN completionTime /\ completionTime[deps[j]] < max
         THEN completionTime[deps[j]] ELSE max)

RECURSIVE MaxCompletionTime(_, _, _, _)
\* deps.forEach(depId => { if (depCompletionTime && depCompletionTime > max) ... })
MaxCompletionTime(completionTime, deps, j, max) ==
  IF j > Len(deps) THEN max
  ELSE MaxCompletionTime(completionTime, deps, j + 1,
         IF deps[j] \in DOMAIN completionTime /\ completionTime[deps[j]] > max
         THEN completionTime[deps[j]] ELSE max)

\* todo.duration || 1
DurationOrDefault(duration) == IF duration # 0 THEN duration ELSE 1

\* the function f with f[key] set to val (Map.set)
MapSet(f, key, val) == [x \in DOMAIN f \cup {key} |-> IF x = key THEN val ELSE f[x]]

NoMap == [x \in {} |-> 0]

RECURSIVE Times(_, _, _, _, _)
\* sortedIds.forEach(todoId => { ... }), from position i on; dates[i] is what
\* the i-th new Date() reads; m is [earliestStart, completionTime]
Times(todos, sortedIds, dates, i, m) ==
  IF i > Len(sortedIds) THEN m
  ELSE LET todoId == sortedIds[i]
           todo == TodoById(todos, todoId)
           deps == parseDependencies(todo.dependencies)
           maxCompletionTime == MaxCompletionTime(m.completionTime, deps, 1, dates[i])
           completion == maxCompletionTime + DurationOrDefault(todo.duration) * HourMs
       IN  Times(todos, sortedIds, dates, i + 1,
                 [earliestStart |-> MapSet(m.earliestStart, todoId, maxCompletionTime),
                  completionTime |-> MapSet(m.completionTime, todoId, completion)])

\* Schedule that returns the records of the tasks placed in the order, in
\* that order, instead of one record per task given
Schedule_sortedOnly(todos, dates) ==
  LET sortedIds == topologicalSort(todos)
      m == Times(todos, sortedIds, dates, 1,
                 [earliestStart |-> NoMap, completionTime |-> NoMap])
      criticalPath == findCriticalPath(todos, m.earliestStart, m.completionTime, sortedIds)
  IN  [sortedIds |-> sortedIds,
       earliestStart |-> m.earliestStart,
       completionTime |-> m.completionTime,
       criticalPath |-> criticalPath,
       result |-> [i \in 1..Len(sortedIds) |->
                    LET todo == TodoById(todos, sortedIds[i])
                    IN  [id |-> todo.id,
                         createdAt |-> todo.createdAt,
                         dependencies |-> todo.dependencies,
                         duration |-> todo.duration,
                         dependsOn |-> parseDependencies(todo.dependencies),
                         earliestStart |-> <<m.earliestStart[todo.id]>>,
                         isOnCriticalPath |-> \E k \in 1..Len(criticalPath) :
                                                criticalPath[k] = todo.id]]]

\* todoMap.get(todoId)! is undefined for an identifier of the order that is
\* no task of the collection, and todo.dependencies then raises a TypeError
ScheduleRaises(todos) ==
  \E k \in 1..Len(topologicalSort(todos)) : ~HasTodo(todos, topologicalSort(todos)[k])

\* everything one calculateSchedule call computes: the order, the two Maps,
\* the critical path and the returned array. An earliestStart that the Map
\* does not hold (undefined) is the empty sequence, a Date is <<ms>>.
\* { ...todo } copies the fields of the task as they are; createdAt holds a
\* reference to a Date object, and the copy holds the same reference.
Schedule(todos, dates) ==
  LET sortedIds == topologicalSort(todos)
      m == Times(todos, sortedIds, dates, 1,
                 [earliestStart |-> NoMap, completionTime |-> NoMap])
      criticalPath == findCriticalPath(todos, m.earliestStart, m.completionTime, sortedIds)
  IN  [sortedIds |-> sortedIds,
       earliestStart |-> m.earliestStart,
       completionTime |-> m.completionTime,
       criticalPath |-> criticalPath,
       result |-> [i \in 1..Len(todos) |->
                    [id |-> todos[i].id,
                     createdAt |-> todos[i].createdAt,
                     dependencies |-> todos[i].dependencies,
                     duration |-> todos[i].duration,
                     dependsOn |-> parseDependencies(todos[i].dependencies),
                     earliestStart |-> IF todos[i].id \in DOMAIN m.earliestStart
                                       THEN <<m.earliestStart[todos[i].id]>> ELSE <<>>,
                     isOnCriticalPath |-> \E k \in 1..Len(criticalPath) :
                                            criticalPath[k] = todos[i].id]]]

calculateSchedule(todos, dates) == Schedule(todos, dates).result

\* ------------------------------------------------------------------- state
VARIABLES
  todos,      \* the rows of the Todo table, oldest first
  nextId,     \* the next value of the autoincrement key
  op,         \* the operation that ran last
  status,     \* the HTTP status of the last response (0: none)
  given,      \* the task collection the last function call was given
  newTodo,    \* the candidate the last hasCircularDependency call was given
  dates,      \* the clock when the last calculateSchedule call started,
              \* followed by the readings of its new Date() calls
  verdict,    \* what the last hasCircularDependency call returned
  order,      \* what the last topologicalSort call returned
  sched,      \* what the last calculateSchedule call computed
  text,       \* the text the last parseDependencies call was given
  parsed,     \* what the last parseDependencies call returned
  heap,       \* the Date objects the tasks' createdAt fields refer to: the
              \* time (ms) each of them holds
  snapshot,   \* the createdAt times of the tasks of `given` when the last
              \* function call was made
  pageTodos,  \* Home: the todos state, the records of the tasks listed
  loadingTodos, \* Home: the loadingTodos state
  images,     \* Home: the <Image> elements rendered, each "loading" until
              \* its load or error event fires, then "loaded" or "failed"
  selectedDependencies, \* Home: the selectedDependencies state
  inflight,   \* the responses of the fetchTodos requests that are under way
  latestFetch, \* the response of the fetchTodos request issued last
  edges       \* DependencyGraph: the edges drawn

parseVars == <<text, parsed>>

pageVars == <<pageTodos, loadingTodos, images, selectedDependencies, inflight,
             latestFetch, edges>>

vars == <<todos, nextId, op, status, given, newTodo, dates, verdict, order, sched,
          parseVars, heap, snapshot, pageVars>>

\* the Date object of the task id: one object for each task
DateObject(id) == id

\* the createdAt times of a collection
CreatedAt(collection, dateObjects) ==
  [i \in 1..Len(collection) |-> dateObjects[collection[i].createdAt]]

NoCandidate == [id |-> UndefinedId, dependencies |-> <<>>]
NoSchedule == [sortedIds |-> <<>>, earliestStart |-> NoMap, completionTime |-> NoMap,
               criticalPath |-> <<>>, result |-> <<>>]

\* no function call has left a result
NoCall ==
  /\ given' = <<>>
  /\ newTodo' = NoCandidate
  /\ dates' = <<>>
  /\ verdict' = FALSE
  /\ order' = <<>>
  /\ sched' = NoSchedule
  /\ snapshot' = <<>>

Init ==
  /\ todos = <<>>
  /\ nextId = FirstId
  /\ op = "none"
  /\ status = 0
  /\ given = <<>>
  /\ newTodo = NoCandidate
  /\ dates = <<>>
  /\ verdict = FALSE
  /\ order = <<>>
  /\ sched = NoSchedule
  /\ text = TNull
  /\ parsed = <<>>
  /\ heap = NoMap
  /\ snapshot = <<>>
  /\ pageTodos = <<>>
  /\ loadingTodos = {}
  /\ images = NoMap
  /\ selectedDependencies = <<>>
  /\ inflight = {}
  /\ latestFetch = <<>>
  /\ edges = {}

\* ------------------------------------------------------ POST /api/todos
Titles == {"", " ", "task"}
\* a due date string: none, one that new Date() cannot read, a date
DueDates == {"", "someday", "2025-06-01"}

Trim(title) == IF title = " " THEN "" ELSE title

\* parseInt(duration.toString()) of an integer
ParseInt(duration) == duration

\* the row prisma.todo.create stores
NewRow(id, dependencies, duration) ==
  [id |-> id,
   createdAt |-> DateObject(id),
   dependencies |-> IF dependencies.k # "undefined" THEN JSONstringify(dependencies)
                    ELSE TNull,
   duration |-> IF duration # 0 THEN ParseInt(duration) ELSE 0]

POST(title, dueDate, dependencies, duration) ==
  /\ Len(todos) < MaxTodos
  /\ op' = "POST"
  /\ NoCall
  /\ UNCHANGED parseVars
  /\ IF title = "" \/ Trim(title) = ""
     THEN /\ status' = 400
          /\ UNCHANGED <<todos, nextId, heap>>
     ELSE IF dueDate = ""
     THEN /\ status' = 400
          /\ UNCHANGED <<todos, nextId, heap>>
     ELSE IF dueDate = "someday"
     THEN \* processDueDate throws 'Invalid date format'
          /\ status' = 500
          /\ UNCHANGED <<todos, nextId, heap>>
     ELSE /\ status' = 201
          /\ todos' = Append(todos, NewRow(nextId, dependencies, duration))
          /\ heap' = MapSet(heap, DateObject(nextId), Now0)
          /\ nextId' = nextId + 1

\* the dependency lists a request may carry
BodyDependencies ==
  {JUndefined}
    \cup {JArray(NumArray(s)) : s \in SeqsUpTo(DepIds, MaxDeps)}
    \cup {JArray(<<Str(FirstId), Num(FirstId)>>)}

\* prisma.todo.findMany({ orderBy: { createdAt: 'desc' } })
findMany == Reverse(todos)

\* ------------------------------------------ calls of the library functions
Candidates ==
  {[id |-> id, dependencies |-> d] :
     id \in {UndefinedId} \cup DepIds \cup {FirstId + MaxTodos},
     d \in {q \in SeqsUpTo(DepIds, MaxDeps) : NoDup(q)}}

CallHasCircularDependency(candidate) ==
  /\ op' = "hasCircularDependency"
  /\ status' = 0
  /\ given' = findMany
  /\ newTodo' = candidate
  /\ verdict' = hasCircularDependency(findMany, candidate)
  /\ dates' = <<>>
  /\ order' = <<>>
  /\ sched' = NoSchedule
  /\ snapshot' = CreatedAt(findMany, heap)
  /\ UNCHANGED <<todos, nextId, parseVars, heap, pageVars>>

CallTopologicalSort ==
  /\ op' = "topologicalSort"
  /\ status' = 0
  /\ given' = findMany
  /\ order' = topologicalSort(findMany)
  /\ newTodo' = NoCandidate
  /\ dates' = <<>>
  /\ verdict' = FALSE
  /\ sched' = NoSchedule
  /\ snapshot' = CreatedAt(findMany, heap)
  /\ UNCHANGED <<todos, nextId, parseVars, heap, pageVars>>

CallParseDependencies(dependencies) ==
  /\ op' = "parseDependencies"
  /\ status' = 0
  /\ text' = dependencies
  /\ parsed' = parseDependencies(dependencies)
  /\ NoCall
  /\ UNCHANGED <<todos, nextId, heap, pageVars>>

RECURSIVE Readings(_, _, _)
\* the clock readings that follow `from` when the clock moves on by adv[i]
\* before the i-th reading
Readings(from, adv, i) ==
  IF i > Len(adv) THEN <<>>
  ELSE <<from + adv[i]>> \o Readings(from + adv[i], adv, i + 1)

\* ------------------------------------------- GET /api/todos/dependencies
GetDependencies(adv) ==
  /\ op' = "calculateSchedule"
  /\ given' = findMany
  /\ IF ScheduleRaises(findMany)
     THEN \* caught by the route
          /\ status' = 500
          /\ dates' = <<Now0>>
          /\ sched' = NoSchedule
     ELSE /\ status' = 200
          /\ dates' = <<Now0>> \o Readings(Now0, adv, 1)
          /\ sched' = Schedule(findMany, Readings(Now0, adv, 1))
  /\ newTodo' = NoCandidate
  /\ verdict' = FALSE
  /\ order' = <<>>
  /\ snapshot' = CreatedAt(findMany, heap)
  /\ UNCHANGED <<todos, nextId, parseVars, heap>>

\* --------------------------------------------------------- specifications
\* Spec: tasks are created with any dependency list and no duration; the
\* cycle check and the topological sort are called on the stored tasks.
Create ==
  /\ \/ \E dependencies \in BodyDependencies : POST("task", "2025-06-01", dependencies, 0)
     \/ \E title \in Titles, dueDate \in DueDates : POST(title, dueDate, JUndefined, 0)
  /\ UNCHANGED pageVars

CheckCycle == \E candidate \in Candidates : CallHasCircularDependency(candidate)

Sort == CallTopologicalSort

Next == Create \/ CheckCycle \/ Sort

Spec == Init /\ [][Next]_vars

\* SpecSchedule: tasks are created with a duplicate-free dependency list and
\* a duration; the schedule of the stored tasks is computed while the clock
\* may move on.
CreateTimed ==
  \E dependencies \in {JArray(NumArray(s)) : s \in {q \in SeqsUpTo(DepIds, MaxDeps) : NoDup(q)}},
     duration \in Durations :
    /\ POST("task", "2025-06-01", dependencies, duration)
    /\ UNCHANGED pageVars

ComputeSchedule ==
  /\ \E adv \in [1..Len(topologicalSort(findMany)) -> Advances] : GetDependencies(adv)
  /\ UNCHANGED pageVars

NextSchedule == CreateTimed \/ ComputeSchedule

SpecSchedule == Init /\ [][NextSchedule]_vars

\* SpecParse: the table holds tasks whose dependencies column carries any
\* text; the text of a task is parsed, and the stored tasks are sorted and
\* scheduled.
Elements ==
  {Num(FirstId + i) : i \in 0..MaxParsed} \cup {Frac(FirstId), Str(FirstId), JTrue}

DependencyTexts ==
  {TNull, TEmpty, TGarbage, TValue(FirstId)}
    \cup {TArray(a) : a \in SeqsUpTo(Elements, MaxDeps)}

\* the tables of n tasks
TablesOf(n) ==
  {[i \in 1..n |-> [id |-> FirstId + i - 1, createdAt |-> DateObject(FirstId + i - 1),
                    dependencies |-> f[i], duration |-> 0]] :
     f \in [1..n -> DependencyTexts]}

InitParse ==
  /\ todos \in UNION {TablesOf(n) : n \in 0..MaxParsed}
  /\ nextId = FirstId + Len(todos)
  /\ op = "none"
  /\ status = 0
  /\ given = <<>>
  /\ newTodo = NoCandidate
  /\ dates = <<>>
  /\ verdict = FALSE
  /\ order = <<>>
  /\ sched = NoSchedule
  /\ text = TNull
  /\ parsed = <<>>
  /\ heap = [a \in {todos[i].createdAt : i \in 1..Len(todos)} |-> Now0]
  /\ snapshot = <<>>
  /\ pageTodos = <<>>
  /\ loadingTodos = {}
  /\ images = NoMap
  /\ selectedDependencies = <<>>
  /\ inflight = {}
  /\ latestFetch = <<>>
  /\ edges = {}

Parse == \E i \in 1..Len(todos) : CallParseDependencies(todos[i].dependencies)

\* the cycle check of a stored task whose dependency list is sent again, or
\* of a new task that depends on the first one
CheckCycleStored ==
  \/ \E i \in 1..Len(todos) :
       CallHasCircularDependency([id |-> todos[i].id,
                                  dependencies |-> parseDependencies(todos[i].dependencies)])
  \/ CallHasCircularDependency([id |-> UndefinedId, dependencies |-> <<FirstId>>])

NextParse == Parse \/ CheckCycleStored \/ Sort \/ ComputeSchedule

SpecParse == InitParse /\ [][NextParse]_vars

\* SpecAlias: tasks are created, the three functions are called on the
\* stored tasks, and the caller of calculateSchedule changes the records it
\* was returned.
CreatePlain ==
  \E dependencies \in {JUndefined, JArray(<<Num(FirstId)>>)} :
    /\ POST("task", "2025-06-01", dependencies, 0)
    /\ UNCHANGED pageVars

\* what the caller does to the i-th record of the result
SetTime(i) ==
  \* result[i].createdAt.setTime(0)
  /\ heap' = [heap EXCEPT ![sched.result[i].createdAt] = Epoch]
  /\ UNCHANGED sched

PushDependsOn(i) ==
  \* result[i].dependsOn.push(FirstId)
  /\ Len(sched.result[i].dependsOn) < MaxDeps
  /\ sched' = [sched EXCEPT !.result[i].dependsOn = Append(@, FirstId)]
  /\ UNCHANGED heap

ChangeResult ==
  /\ op \in {"calculateSchedule", "change"}
  /\ \E i \in 1..Len(sched.result) : SetTime(i) \/ PushDependsOn(i)
  /\ op' = "change"
  /\ UNCHANGED <<todos, nextId, status, given, newTodo, dates, verdict, order,
                 parseVars, snapshot, pageVars>>

NextAlias == CreatePlain \/ CheckCycleStored \/ Sort \/ ComputeSchedule \/ ChangeResult

SpecAlias == Init /\ [][NextAlias]_vars

\* ------------------------------------------------------------ Home (page)
\* fetchTodos, up to the response: GET /api/todos/dependencies is sent and
\* answered; data.todos || [] is on its way to the page.
fetchTodos ==
  /\ Cardinality(inflight) < MaxInFlight
  /\ GetDependencies([k \in 1..Len(topologicalSort(findMany)) |-> 0])
  /\ inflight' = inflight \cup {sched'.result}
  /\ latestFetch' = sched'.result
  /\ UNCHANGED <<pageTodos, loadingTodos, images, selectedDependencies, edges>>

\* fetchTodos, from the response on: setTodos(data.todos || []). The list
\* is rendered anew: a task that was not listed gets an <Image> element
\* (every stored task has an image URL), which starts loading; an element
\* that is there already (key={todo.id}) is kept.
setTodos(data) ==
  /\ pageTodos' = data
  /\ images' = [id \in {data[i].id : i \in 1..Len(data)} |->
                  IF id \in DOMAIN images THEN images[id] ELSE "loading"]
  /\ inflight' = inflight \ {data}
  /\ op' = "setTodos"
  /\ UNCHANGED <<todos, nextId, status, given, newTodo, dates, verdict, order, sched,
                 parseVars, heap, snapshot, loadingTodos, selectedDependencies,
                 latestFetch, edges>>

\* onLoad={() => handleImageLoad(todo.id)}
handleImageLoad(todoId) ==
  /\ images[todoId] = "loading"
  /\ images' = [images EXCEPT ![todoId] = "loaded"]
  /\ loadingTodos' = loadingTodos \ {todoId}
  /\ op' = "handleImageLoad"
  /\ UNCHANGED <<todos, nextId, status, given, newTodo, dates, verdict, order, sched,
                 parseVars, heap, snapshot, pageTodos, selectedDependencies,
                 inflight, latestFetch, edges>>

\* onError={() => handleImageError(todo.id)}
handleImageError(todoId) ==
  /\ images[todoId] = "loading"
  /\ images' = [images EXCEPT ![todoId] = "failed"]
  /\ loadingTodos' = loadingTodos \ {todoId}
  /\ op' = "handleImageError"
  /\ UNCHANGED <<todos, nextId, status, given, newTodo, dates, verdict, order, sched,
                 parseVars, heap, snapshot, pageTodos, selectedDependencies,
                 inflight, latestFetch, edges>>

\* handleDependencyToggle, of a task the form lists
handleDependencyToggle(todoId) ==
  /\ selectedDependencies' =
       IF \E i \in 1..Len(selectedDependencies) : selectedDependencies[i] = todoId
       THEN SelectSeq(selectedDependencies, LAMBDA id : id # todoId)
       ELSE Append(selectedDependencies, todoId)
  /\ op' = "handleDependencyToggle"
  /\ UNCHANGED <<todos, nextId, status, given, newTodo, dates, verdict, order, sched,
                 parseVars, heap, snapshot, pageTodos, loadingTodos, images,
                 inflight, latestFetch, edges>>

\* handleAddTodo with a title and a due date filled in: the selection is
\* sent as the string JSON.stringify makes of it, or not at all when it is
\* empty; then the form is cleared. (The fetchTodos it ends with is the
\* action fetchTodos.)
handleAddTodo ==
  /\ POST("task", "2025-06-01",
          IF Len(selectedDependencies) > 0
          THEN JString(NumArray(selectedDependencies)) ELSE JUndefined,
          0)
  /\ selectedDependencies' = <<>>
  /\ UNCHANGED <<pageTodos, loadingTodos, images, inflight, latestFetch, edges>>

\* SpecPage: tasks are created, the page fetches and lists them, the
\* responses arrive in any order, and the images of the listed tasks load
\* or fail.
ReceiveTodos == \E data \in inflight : setTodos(data)

ImageLoad == \E todoId \in DOMAIN images : handleImageLoad(todoId)

ImageError == \E todoId \in DOMAIN images : handleImageError(todoId)

NextPage == CreatePlain \/ fetchTodos \/ ReceiveTodos \/ ImageLoad \/ ImageError

SpecPage == Init /\ [][NextPage]_vars

\* SpecForm: tasks are created through the form of the page, which lists
\* the tasks fetched for selection as dependencies.
ToggleDependency ==
  \E i \in 1..Len(pageTodos) : handleDependencyToggle(pageTodos[i].id)

NextForm == handleAddTodo \/ ToggleDependency \/ fetchTodos \/ ReceiveTodos

SpecForm == Init /\ [][NextForm]_vars

\* ------------------------------------------------------- DependencyGraph
\* the node of a task: isOnCriticalPath: todo.isOnCriticalPath || false
NodeIsOnCriticalPath(todosProp, id) ==
  \E i \in 1..Len(todosProp) : todosProp[i].id = id /\ todosProp[i].isOnCriticalPath

\* the edges pushed: one for each entry of each task's dependsOn, critical
\* when the nodes at both ends are
GraphEdges(todosProp) ==
  UNION {{[from |-> todosProp[i].dependsOn[j],
           to |-> todosProp[i].id,
           isOnCriticalPath |->
             /\ NodeIsOnCriticalPath(todosProp, todosProp[i].dependsOn[j])
             /\ NodeIsOnCriticalPath(todosProp, todosProp[i].id)] :
            j \in 1..Len(todosProp[i].dependsOn)} :
         i \in 1..Len(todosProp)}

\* showGraph && todos.length > 0 && <DependencyGraph todos={todos} />
DependencyGraph ==
  /\ Len(pageTodos) > 0
  /\ edges' = GraphEdges(pageTodos)
  /\ op' = "DependencyGraph"
  /\ UNCHANGED <<todos, nextId, status, given, newTodo, dates, verdict, order, sched,
                 parseVars, heap, snapshot, pageTodos, loadingTodos, images,
                 selectedDependencies, inflight, latestFetch>>

\* SpecGraph: tasks are created with dependency lists that form chains, the
\* page fetches and lists them and draws the dependency graph.
CreateChained ==
  \E dependencies \in {JUndefined, JArray(<<Num(FirstId)>>),
                       JArray(<<Num(FirstId), Num(FirstId + 1)>>)} :
    /\ POST("task", "2025-06-01", dependencies, 0)
    /\ UNCHANGED pageVars

NextGraph == CreateChained \/ fetchTodos \/ ReceiveTodos \/ DependencyGraph

SpecGraph == Init /\ [][NextGraph]_vars

\* ----------------------------------------------- graphs, for the properties
\* the edges node -> dependency of a depends-on graph
Edges(graph) ==
  {e \in (DOMAIN graph) \X (DepIds \cup {FirstId + MaxTodos}) :
     \E i \in 1..Len(graph[e[1]]) : graph[e[1]][i] = e[2]}

RECURSIVE Closure(_)
\* the transitive closure of a finite relation
Closure(R) ==
  LET step == R \cup {<<p[1][1], p[2][2]>> : p \in {q \in R \X R : q[1][2] = q[2][1]}}
  IN  IF step = R THEN R ELSE Closure(step)

\* some node reaches itself along one or more edges
Cyclic(graph) == \E e \in Closure(Edges(graph)) : e[1] = e[2]

\* the depends-on graph of a task collection alone
GraphOf(collection) == CycleGraph(collection, NoCandidate)

PositionIn(seq, x) == CHOOSE i \in 1..Len(seq) : seq[i] = x
Occurrences(seq, x) == Cardinality({i \in 1..Len(seq) : seq[i] = x})

\* -------------------------------------------------------------- properties

\* C1: hasCircularDependency returns true whenever the combined depends-on
\* graph of the tasks and the candidate contains a cycle (a task that lists
\* itself, or a cycle through several tasks).
C1_CycleIsReported ==
  (op = "hasCircularDependency" /\ Cyclic(CycleGraph(given, newTodo)))
    => verdict = TRUE

\* C2: hasCircularDependency returns false whenever the combined depends-on
\* graph of the tasks and the candidate is acyclic, also when tasks share a
\* dependency and when a list names an identifier that is no task.
C2_AcyclicIsAccepted ==
  (op = "hasCircularDependency" /\ ~Cyclic(CycleGraph(given, newTodo)))
    => verdict = FALSE

\* an acyclic diamond was checked: the candidate depends on two tasks, both
\* of which depend on a third one
C2_Witness ==
  /\ op = "hasCircularDependency"
  /\ ~Cyclic(CycleGraph(given, newTodo))
  /\ verdict = FALSE
  /\ LET graph == CycleGraph(given, newTodo)
     IN  \E a, b, c \in DOMAIN graph :
           /\ Cardinality({a, b, c, newTodo.id}) = 4
           /\ newTodo.dependencies = <<b, c>>
           /\ graph[b] = <<a>> /\ graph[c] = <<a>>

\* C3: on an acyclic collection topologicalSort returns every task identifier
\* exactly once, and every dependency that is a task of the collection comes
\* before the task that lists it.
C3_TopologicalOrder ==
  (op = "topologicalSort" /\ ~Cyclic(GraphOf(given))) =>
    /\ \A i \in 1..Len(given) : Occurrences(order, given[i].id) = 1
    /\ Len(order) = Len(given)
    /\ \A i \in 1..Len(given) :
         LET deps == parseDependencies(given[i].dependencies)
         IN  \A j \in 1..Len(deps) :
               HasTodo(given, deps[j]) =>
                 PositionIn(order, deps[j]) < PositionIn(order, given[i].id)

\* three tasks were sorted, one of which lists the same existing task twice
C3_Witness ==
  /\ op = "topologicalSort"
  /\ ~Cyclic(GraphOf(given))
  /\ Len(order) = MaxTodos
  /\ \E i \in 1..Len(given) :
       LET deps == parseDependencies(given[i].dependencies)
       IN  Len(deps) = 2 /\ deps[1] = deps[2] /\ HasTodo(given, deps[1])

\* C4: whatever tasks have been created through POST /api/todos, the
\* depends-on graph of the stored tasks has no cycle.
C4_StoredGraphAcyclic == ~Cyclic(GraphOf(todos))

\* the tasks of a collection that a task lists as dependencies
PresentDeps(collection, i) ==
  {d \in {parseDependencies(collection[i].dependencies)[j] :
            j \in 1..Len(parseDependencies(collection[i].dependencies))} :
     HasTodo(collection, d)}

SetMax(S) == CHOOSE x \in S : \A y \in S : y <= x

\* C5: a task of an acyclic collection that lists at least one task of the
\* collection starts at the latest completion among those tasks.
C5_StartIsLatestDependencyCompletion ==
  (op = "calculateSchedule" /\ ~Cyclic(GraphOf(given))) =>
    \A i \in 1..Len(given) :
      PresentDeps(given, i) # {} =>
        sched.result[i].earliestStart =
          <<SetMax({sched.completionTime[d] : d \in PresentDeps(given, i)})>>

\* C6: within one calculateSchedule call every task without dependencies
\* starts at one and the same "now", the first reading of the clock.
C6_OneNowPerCall ==
  op = "calculateSchedule" =>
    \A i \in 1..Len(given) :
      (sched.result[i].dependsOn = <<>> /\ sched.result[i].earliestStart # <<>>)
        => sched.result[i].earliestStart = <<dates[2]>>

C8_CriticalPathIsChain ==
  op = "calculateSchedule" =>
    LET path == sched.criticalPath
    IN  /\ \A k \in 1..(Len(path) - 1) :
             /\ HasTodo(given, path[k + 1])
             /\ \E j \in 1..Len(parseDependencies(TodoById(given, path[k + 1]).dependencies)) :
                  parseDependencies(TodoById(given, path[k + 1]).dependencies)[j] = path[k]
             /\ Abs(sched.completionTime[path[k]] - sched.earliestStart[path[k + 1]]) < 1000
        /\ NoDup(path)
        /\ \A i \in 1..Len(given) :
             sched.result[i].isOnCriticalPath <=> Occurrences(path, given[i].id) = 1

\* a critical path through all three tasks was found
C8_Witness ==
  /\ op = "calculateSchedule"
  /\ Len(sched.criticalPath) = MaxTodos

RECURSIVE SumDurations(_, _)
\* the hours the tasks of a path take
SumDurations(collection, path) ==
  IF path = <<>> THEN 0
  ELSE DurationOrDefault(TodoById(collection, Head(path)).duration)
         + SumDurations(collection, Tail(path))

RECURSIVE LongestChainTo(_, _)
\* the hours of the longest dependency chain of an acyclic collection that
\* ends with task i
LongestChainTo(collection, i) ==
  LET before == {LongestChainTo(collection, k) :
                   k \in {m \in 1..Len(collection) :
                            collection[m].id \in PresentDeps(collection, i)}}
  IN  DurationOrDefault(collection[i].duration)
        + (IF before = {} THEN 0 ELSE SetMax(before))

ClockStoodStill == \A k \in 1..Len(dates) : dates[k] = dates[1]

\* C9: for an acyclic collection with positive or absent durations and a
\* clock that stands still, the critical path starts at a task without a
\* dependency in the collection, ends at a task with the latest completion,
\* takes as long as from "now" to that completion, and no dependency chain
\* takes longer.
C9_CriticalPathIsLongestChain ==
  (/\ op = "calculateSchedule"
   /\ given # <<>>
   /\ ~Cyclic(GraphOf(given))
   /\ \A i \in 1..Len(given) : given[i].duration >= 0
   /\ ClockStoodStill) =>
    LET path == sched.criticalPath
        latest == SetMax({sched.completionTime[given[i].id] : i \in 1..Len(given)})
    IN  /\ path # <<>>
        /\ PresentDeps(given, PositionIn(TodoIds(given), path[1])) = {}
        /\ sched.completionTime[path[Len(path)]] = latest
        /\ SumDurations(given, path) * HourMs = latest - dates[1]
        /\ \A i \in 1..Len(given) :
             LongestChainTo(given, i) <= SumDurations(given, path)

\* the critical path of three tasks of different lengths, two of which the
\* third depends on, goes through the longer one
C9_Witness ==
  /\ op = "calculateSchedule"
  /\ ~Cyclic(GraphOf(given))
  /\ \A i \in 1..Len(given) : given[i].duration >= 0
  /\ ClockStoodStill
  /\ Len(given) = MaxTodos
  /\ Len(sched.criticalPath) = 2
  /\ \E i \in 1..Len(given) : Cardinality(PresentDeps(given, i)) = 2
  /\ SumDurations(given, sched.criticalPath) = 4

\* the run of calculateSchedule on the same collection with a clock that
\* stands still at the time the call started
StandingClockRun ==
  Schedule(given, [k \in 1..(Len(dates) - 1) |-> dates[1]])

\* C11: the order and the tasks flagged as critical depend on the collection
\* alone: they are those of the run in which the clock stands still, however
\* the clock moved on during the call.
C11_FlagsIndependentOfClock ==
  op = "calculateSchedule" =>
    /\ sched.sortedIds = StandingClockRun.sortedIds
    /\ \A i \in 1..Len(given) :
         sched.result[i].isOnCriticalPath = StandingClockRun.result[i].isOnCriticalPath

\* the nodes of a depends-on graph that lie on a cycle, and those that lie
\* on one or reach one
OnCycle(graph) == {n \in DOMAIN graph : <<n, n>> \in Closure(Edges(graph))}
BehindCycle(graph) ==
  OnCycle(graph) \cup
    {n \in DOMAIN graph : \E c \in OnCycle(graph) : <<n, c>> \in Closure(Edges(graph))}

SeqToSet(seq) == {seq[i] : i \in 1..Len(seq)}

\* C14: on a collection with a cycle topologicalSort returns, without
\* repetition, exactly the tasks that neither lie on a cycle nor depend on a
\* task that does, each after its dependencies in the collection; nothing
\* when every task lies on a cycle.
C14_PartialOrderOnCycle ==
  (op = "topologicalSort" /\ Cyclic(GraphOf(given))) =>
    /\ NoDup(order)
    /\ SeqToSet(order) = SeqToSet(TodoIds(given)) \ BehindCycle(GraphOf(given))
    /\ \A k \in 1..Len(order) :
         \A d \in PresentDeps(given, PositionIn(TodoIds(given), order[k])) :
           \E m \in 1..(k - 1) : order[m] = d
    /\ (OnCycle(GraphOf(given)) = SeqToSet(TodoIds(given)) => order = <<>>)

\* three tasks were sorted: one depends on itself, one depends on that one,
\* and the third one alone was placed
C14_Witness ==
  /\ op = "topologicalSort"
  /\ Len(given) = MaxTodos
  /\ Cardinality(OnCycle(GraphOf(given))) = 1
  /\ Cardinality(BehindCycle(GraphOf(given))) = 2
  /\ Len(order) = 1

\* a collection without its dangling references: every dependency list keeps
\* the identifiers of tasks of the collection only
WithoutDangling(collection) ==
  [i \in 1..Len(collection) |->
     [collection[i] EXCEPT !.dependencies =
        TArray(NumArray(SelectSeq(parseDependencies(collection[i].dependencies),
                                  LAMBDA d : HasTodo(collection, d))))]]

HasDangling(collection) ==
  \E i \in 1..Len(collection) :
    \E d \in SeqToSet(parseDependencies(collection[i].dependencies)) :
      ~HasTodo(collection, d)

\* C15: identifiers that are no task of the collection change nothing: the
\* order holds tasks of the collection only, and order, earliest starts and
\* critical flags are those of the collection without these identifiers,
\* under the same clock.
C15_DanglingIgnored ==
  op = "calculateSchedule" =>
    LET plain == Schedule(WithoutDangling(given), Tail(dates))
    IN  /\ SeqToSet(sched.sortedIds) \subseteq SeqToSet(TodoIds(given))
        /\ sched.sortedIds = topologicalSort(WithoutDangling(given))
        /\ \A i \in 1..Len(given) :
             /\ sched.result[i].earliestStart = plain.result[i].earliestStart
             /\ sched.result[i].isOnCriticalPath = plain.result[i].isOnCriticalPath

\* two tasks were scheduled, the second depends on the first and on a task
\* that does not exist, and both are on the critical path
C15_Witness ==
  /\ op = "calculateSchedule"
  /\ HasDangling(given)
  /\ Len(given) = 2
  /\ sched.criticalPath = <<FirstId, FirstId + 1>>
  /\ Len(parseDependencies(given[1].dependencies)) = 2

\* C18 as claimed: calculateSchedule returns one record per task, in the
\* order given, with the task's fields, its parsed dependency list, a defined
\* earliest start and a critical-path flag.
C18_OneFullRecordPerTask ==
  op = "calculateSchedule" =>
    /\ Len(sched.result) = Len(given)
    /\ \A i \in 1..Len(given) :
         /\ sched.result[i].id = given[i].id
         /\ sched.result[i].dependencies = given[i].dependencies
         /\ sched.result[i].duration = given[i].duration
         /\ sched.result[i].dependsOn = parseDependencies(given[i].dependencies)
         /\ Len(sched.result[i].earliestStart) = 1
         /\ sched.result[i].isOnCriticalPath \in BOOLEAN

\* C18: calculateSchedule returns one record per task, in the order given,
\* with the task's fields, its parsed dependency list and a critical-path
\* flag; the earliest start is defined for the tasks that neither lie on a
\* cycle nor depend on a task that does, and undefined for the others.
C18_OneRecordPerTask ==
  op = "calculateSchedule" =>
    /\ Len(sched.result) = Len(given)
    /\ \A i \in 1..Len(given) :
         /\ sched.result[i].id = given[i].id
         /\ sched.result[i].dependencies = given[i].dependencies
         /\ sched.result[i].duration = given[i].duration
         /\ sched.result[i].dependsOn = parseDependencies(given[i].dependencies)
         /\ Len(sched.result[i].earliestStart) =
              (IF given[i].id \in BehindCycle(GraphOf(given)) THEN 0 ELSE 1)
         /\ sched.result[i].isOnCriticalPath \in BOOLEAN

\* three tasks were scheduled, the order placed them otherwise than they
\* were given, and one of them, depending on itself, has no earliest start
C18_Witness ==
  /\ op = "calculateSchedule"
  /\ Len(sched.result) = MaxTodos
  /\ Len(sched.sortedIds) = 2
  /\ sched.sortedIds # SelectSeq(TodoIds(given), LAMBDA id : id \in SeqToSet(sched.sortedIds))
  /\ \E i \in 1..Len(given) : sched.result[i].earliestStart = <<>>

\* C20: no earliest start that calculateSchedule assigns lies before the
\* time at which the call started.
C20_StartNotBeforeCall ==
  op = "calculateSchedule" =>
    \A i \in 1..Len(given) :
      sched.result[i].earliestStart # <<>> =>
        sched.result[i].earliestStart[1] >= dates[1]

\* a task was scheduled whose dependency completed before the call started,
\* while the clock moved on
C20_Witness ==
  /\ op = "calculateSchedule"
  /\ ~ClockStoodStill
  /\ \E i \in 1..Len(given) :
       /\ sched.result[i].earliestStart # <<>>
       /\ \E d \in PresentDeps(given, i) : sched.completionTime[d] < dates[1]

\* the texts parseDependencies cannot read as an array
Unreadable == {"null", "empty", "garbage", "value"}

\* a collection in which every text that cannot be read as an array is
\* replaced by the text of the empty array
WithoutUnreadable(collection) ==
  [i \in 1..Len(collection) |->
     IF collection[i].dependencies.k \in Unreadable
     THEN [collection[i] EXCEPT !.dependencies = TArray(<<>>)]
     ELSE collection[i]]

\* C12: parseDependencies returns the empty sequence for no text, the empty
\* text, text that is no JSON and JSON that is no array; the tasks that carry
\* such a text are ordered and scheduled as with an empty dependency list.
C12_UnreadableIsEmpty ==
  /\ text.k \in Unreadable => parsed = <<>>
  /\ op = "topologicalSort" => order = topologicalSort(WithoutUnreadable(given))
  /\ op = "calculateSchedule" =>
       LET plain == Schedule(WithoutUnreadable(given), Tail(dates))
       IN  /\ sched.sortedIds = plain.sortedIds
           /\ \A i \in 1..Len(given) :
                /\ sched.result[i].dependsOn = plain.result[i].dependsOn
                /\ sched.result[i].earliestStart = plain.result[i].earliestStart
                /\ sched.result[i].isOnCriticalPath = plain.result[i].isOnCriticalPath

\* "not-json" was parsed, and the task that carries it was scheduled first
\* of two, the other one depending on it
C12_Witness ==
  /\ op = "calculateSchedule"
  /\ text = TGarbage
  /\ parsed = <<>>
  /\ \E i \in 1..Len(given) :
       /\ given[i].dependencies = TGarbage
       /\ sched.result[i].dependsOn = <<>>
       /\ sched.sortedIds[1] = given[i].id
  /\ Len(sched.sortedIds) = 2
  /\ \E i \in 1..Len(given) :
       /\ given[i].dependencies.k = "array"
       /\ Len(sched.result[i].dependsOn) > 0

\* the integers among the elements of an array, in their order
IntegersOf(elems) ==
  LET kept == SelectSeq(elems, LAMBDA e : e.t = "number")
  IN  [i \in 1..Len(kept) |-> kept[i].v]

\* C13: of the text of an array parseDependencies returns the integers, in
\* their order and as often as they occur, and nothing else.
C13_IntegersOnly ==
  text.k = "array" => parsed = IntegersOf(text.a)

C17_InputUnchanged ==
  op \in {"hasCircularDependency", "topologicalSort", "calculateSchedule", "change"} =>
    /\ given = findMany
    /\ CreatedAt(given, heap) = snapshot

\* C19: the image of a listed task is loading exactly while the task's
\* identifier is in loadingTodos: from the rendering of the task until the
\* load or error event of its image the identifier is in the set, and after
\* the event it is not.
C19_LoadingWhileImageLoads ==
  \A i \in 1..Len(pageTodos) :
    (images[pageTodos[i].id] = "loading") <=> (pageTodos[i].id \in loadingTodos)

\* the position in the order at which a task's in-degree reached zero: 0
\* for a task that starts with in-degree zero, else the position of the
\* last of its dependencies
ReleasedAt(collection, sorted, id) ==
  LET deps == PresentDeps(collection, PositionIn(TodoIds(collection), id))
  IN  IF deps = {} THEN 0
      ELSE SetMax({PositionIn(sorted, d) : d \in deps})

\* C21: topologicalSort returns the tasks in the order in which a FIFO queue
\* receives them: first the tasks of in-degree zero in the order given, then
\* every other task in the order in which its in-degree reaches zero (tasks
\* released by the same task in the order given).
C21_FifoOrder ==
  op = "topologicalSort" =>
    /\ \A i \in 1..Len(given) :
         PresentDeps(given, i) = {} => given[i].id \in SeqToSet(order)
    /\ \A a, b \in 1..Len(order) :
         a < b =>
           LET ra == ReleasedAt(given, order, order[a])
               rb == ReleasedAt(given, order, order[b])
           IN  \/ ra < rb
               \/ /\ ra = rb
                  /\ PositionIn(TodoIds(given), order[a]) < PositionIn(TodoIds(given), order[b])

\* three tasks were sorted, two of them without dependencies, and the order
\* is not the order given: the first task given depends on a later one
C21_Witness ==
  /\ op = "topologicalSort"
  /\ Len(order) = MaxTodos
  /\ PresentDeps(given, 1) # {}
  /\ PresentDeps(given, 2) = {}
  /\ PresentDeps(given, 3) = {}
  /\ order = <<given[2].id, given[3].id, given[1].id>>

\* C22: the last task of a critical path is a scheduled task whose
\* completion no scheduled task exceeds, and of the tasks with that
\* completion it is the first in the topological order.
C22_EndTaskIsFirstLatest ==
  (op = "calculateSchedule" /\ sched.criticalPath # <<>>) =>
    LET endTask == sched.criticalPath[Len(sched.criticalPath)]
    IN  /\ endTask \in SeqToSet(sched.sortedIds)
        /\ \A k \in 1..Len(sched.sortedIds) :
             /\ sched.completionTime[sched.sortedIds[k]] <= sched.completionTime[endTask]
             /\ sched.completionTime[sched.sortedIds[k]] = sched.completionTime[endTask]
                  => PositionIn(sched.sortedIds, endTask) <= k

\* three tasks were scheduled, the first two of the order complete at the
\* same, latest time, and the first of them ends the critical path
C22_Witness ==
  /\ op = "calculateSchedule"
  /\ Len(sched.sortedIds) = MaxTodos
  /\ sched.completionTime[sched.sortedIds[1]] = sched.completionTime[sched.sortedIds[2]]
  /\ sched.completionTime[sched.sortedIds[3]] < sched.completionTime[sched.sortedIds[1]]
  /\ sched.criticalPath[Len(sched.criticalPath)] = sched.sortedIds[1]

\* the positions in a task's dependency list of the dependencies that
\* completed less than 1000 ms away from the task's earliest start
Qualifying(s, deps, todoId) ==
  {j \in 1..Len(deps) :
     /\ deps[j] \in DOMAIN s.completionTime
     /\ Abs(s.completionTime[deps[j]] - s.earliestStart[todoId]) < ToleranceMs}

\* C23: each task of the critical path but the first is preceded by the one
\* of its qualifying dependencies that completed latest, the first listed of
\* those that completed at that time; the first task of the path has no
\* qualifying dependency.
C23_TraceTakesLatestQualifying ==
  (op = "calculateSchedule" /\ sched.criticalPath # <<>>) =>
    /\ \A k \in 2..Len(sched.criticalPath) :
         LET todoId == sched.criticalPath[k]
             deps == parseDependencies(TodoById(given, todoId).dependencies)
             q == Qualifying(sched, deps, todoId)
         IN  \E j \in q :
               /\ deps[j] = sched.criticalPath[k - 1]
               /\ \A m \in q :
                    /\ sched.completionTime[deps[m]] <= sched.completionTime[deps[j]]
                    /\ sched.completionTime[deps[m]] = sched.completionTime[deps[j]] => j <= m
    /\ LET first == sched.criticalPath[1]
       IN  Qualifying(sched, parseDependencies(TodoById(given, first).dependencies), first) = {}

\* tasks 1 and 2 completed at the same time, task 3 depends on [1, 2], and
\* the critical path is [1, 3]
C23_Witness ==
  /\ op = "calculateSchedule"
  /\ Len(given) = 3
  /\ Len(sched.sortedIds) = 3
  /\ parseDependencies(TodoById(given, FirstId + 2).dependencies) = <<FirstId, FirstId + 1>>
  /\ sched.completionTime[FirstId] = sched.completionTime[FirstId + 1]
  /\ sched.criticalPath = <<FirstId, FirstId + 2>>

\* C24: every scheduled task completes d hours after its earliest start,
\* d being its stored duration when that is positive and 1 otherwise, and so
\* strictly after its earliest start.
C24_CompletionAfterStart ==
  op = "calculateSchedule" =>
    \A k \in 1..Len(sched.sortedIds) :
      LET todo == TodoById(given, sched.sortedIds[k])
          d == IF todo.duration > 0 THEN todo.duration ELSE 1
      IN  /\ sched.completionTime[todo.id] = sched.earliestStart[todo.id] + d * HourMs
          /\ sched.completionTime[todo.id] > sched.earliestStart[todo.id]

\* C26: when no fetchTodos request is under way, the page lists what the
\* request issued last was answered.
C26_ListIsLatestFetch ==
  inflight = {} => pageTodos = latestFetch

\* C25: when the form is submitted with a non-empty selection and the task
\* is stored, parseDependencies of the stored dependencies field is the
\* selection, in its order.
C25_SelectionRoundTrip ==
  [][(/\ selectedDependencies # <<>>
      /\ selectedDependencies' = <<>>
      /\ status' = 201)
       => parseDependencies(todos'[Len(todos')].dependencies) = selectedDependencies]_vars

\* C27: an edge of the graph drawn of the schedule computed last is marked
\* critical only if its two tasks follow one another on the critical path.
C27_CriticalEdgesAreOnPath ==
  (op = "DependencyGraph" /\ pageTodos = sched.result) =>
    \A edge \in edges :
      edge.isOnCriticalPath =>
        \E k \in 1..(Len(sched.criticalPath) - 1) :
          /\ sched.criticalPath[k] = edge.from
          /\ sched.criticalPath[k + 1] = edge.to

\* C28: a POST either stores one task and is answered 201, or, rejected for
\* its title or its due date (nothing else is rejected here), stores
\* nothing and is answered 400.
C28_RejectedWith400 ==
  [][op' = "POST" =>
       \/ status' = 201 /\ Len(todos') = Len(todos) + 1
       \/ status' = 400 /\ todos' = todos]_vars

====
